---- MODULE Spec2Model ----
(***************************************************************************)
(* certbot-dns-cdmon: the Authenticator of certbot_dns_cdmon/dns_cdmon.py  *)
(* and the CDmon provider it talks to.                                     *)
(*                                                                         *)
(* Strings that the code inspects character by character (DNS names) are   *)
(* sequences of one-character strings, so that str.endswith, str.split and *)
(* str.startswith are computed as Python computes them.  Opaque strings    *)
(* (validation values, provider messages) are TLA+ strings.                *)
(***************************************************************************)
EXTENDS Integers, Sequences, FiniteSets, TLC

VARIABLES
    _domain_map,     \* self._domain_map: validation name -> base domain
    _domain,         \* self._domain: configured base domain, None when unset
    records,         \* the provider's record list, in the order it lists them
    json_compat,     \* build: response.json() failure is a RequestException
    last,            \* the most recent _perform / _cleanup invocation
    performed,       \* validation name -> base domain and host of its last _perform
    _api_key,        \* self._api_key: the token sent with every request
    transport,       \* the logical POST the HTTP session is carrying out
    threads          \* the invocations running concurrently on the authenticator

vars == <<_domain_map, _domain, records, json_compat, last, performed, _api_key, transport, threads>>

\* what _perform, _cleanup and the name helpers leave alone
aside == <<_api_key, transport, threads>>

----------------------------------------------------------------------------
(* Bounds of the model *)

\* the provider holds at most this many records
MaxRecords == 3

----------------------------------------------------------------------------
(* Python string operations on character sequences *)

StartsWith(s, p) == Len(s) >= Len(p) /\ SubSeq(s, 1, Len(p)) = p

EndsWith(s, p) == Len(s) >= Len(p) /\ SubSeq(s, Len(s) - Len(p) + 1, Len(s)) = p

\* index of the first "." of s, 0 when there is none
FirstDot(s) ==
    IF \E i \in 1..Len(s) : s[i] = "."
    THEN CHOOSE i \in 1..Len(s) : s[i] = "." /\ \A j \in 1..(i - 1) : s[j] # "."
    ELSE 0

RECURSIVE SplitAt(_, _)
\* s.split("."), given the index of the first "." of s
SplitAt(s, dot) ==
    IF dot = 0 THEN <<s>>
    ELSE <<SubSeq(s, 1, dot - 1)>>
         \o SplitAt(SubSeq(s, dot + 1, Len(s)), FirstDot(SubSeq(s, dot + 1, Len(s))))

\* s.split(".")
Split(s) == SplitAt(s, FirstDot(s))

RECURSIVE Join(_)
\* ".".join(parts)
Join(parts) ==
    IF parts = <<>> THEN <<>>
    ELSE IF Len(parts) = 1 THEN parts[1]
    ELSE parts[1] \o <<".">> \o Join(Tail(parts))

----------------------------------------------------------------------------
(* Module constants of dns_cdmon.py *)

ACME_CHALLENGE_PREFIX ==
    <<"_", "a", "c", "m", "e", "-", "c", "h", "a", "l", "l", "e", "n", "g", "e">>

DEFAULT_TTL == 60

\* self._domain before / without a configured domain (falsy, like "")
None == <<>>

MAX_RETRIES == 3

RETRY_STATUS_FORCELIST == { 429, 500, 502, 503, 504 }

\* self._api_key before / without a configured key (falsy, like "")
NoKey == ""

\* the HTTP session before its first POST
NoTransport == [phase |-> "idle", attempts |-> 0, retries |-> MAX_RETRIES, answers |-> <<>>]

\* no invocation is running concurrently
NoThreads == << >>

----------------------------------------------------------------------------
(* The names the operations are called with *)

Dot == <<".">>

\* "e.c", the apex zone of the account
D_ec == <<"e", ".", "c">>
\* "s.e.c", a delegated subdomain
D_sec == <<"s">> \o Dot \o D_ec

\* "_acme-challenge.e.c" and "_acme-challenge.s.e.c"
V_ec == ACME_CHALLENGE_PREFIX \o Dot \o D_ec
V_sec == ACME_CHALLENGE_PREFIX \o Dot \o D_sec

ValidationNames == { V_ec, V_sec }

\* the domain argument certbot passes (the domain being validated)
DomainArgs == { D_ec, D_sec }

ConfigDomains == { None, D_ec }

Validations == { "v1" }

----------------------------------------------------------------------------
(* Provider responses to one logical POST *)

NoMessage == "<absent>"
ApiKeyMessage == "No API key found in request"
RejectMessage == "Record rejected"

\* 2xx, {"success": true, ...}
RespOk ==
    [conn |-> TRUE, status |-> 200, decodable |-> TRUE, success |-> "true",
     message |-> NoMessage]
\* HTTP 403 with body {"message": "No API key found in request"}
Resp403 ==
    [conn |-> TRUE, status |-> 403, decodable |-> TRUE, success |-> "absent",
     message |-> ApiKeyMessage]
\* 2xx, {"success": false, "message": ...}
RespRejected ==
    [conn |-> TRUE, status |-> 200, decodable |-> TRUE, success |-> "false",
     message |-> RejectMessage]
\* 2xx, a JSON object without success and without message
RespNoFlag ==
    [conn |-> TRUE, status |-> 200, decodable |-> TRUE, success |-> "absent",
     message |-> NoMessage]
\* no response: connection failure, timeout or exhausted retries
RespConnError ==
    [conn |-> FALSE, status |-> 0, decodable |-> FALSE, success |-> "absent",
     message |-> NoMessage]
\* 2xx with a body that is not JSON
RespBadJson ==
    [conn |-> TRUE, status |-> 200, decodable |-> FALSE, success |-> "absent",
     message |-> NoMessage]

\* no POST was made
NoResponse ==
    [conn |-> FALSE, status |-> 0, decodable |-> FALSE, success |-> "none",
     message |-> NoMessage]

Responses == { RespOk, Resp403, RespRejected, RespNoFlag, RespConnError, RespBadJson }

\* the answers to the two POSTs of one invocation (the list, then the create,
\* edit or delete): at most one of them fails, or the provider answers every
\* request with the 403 of a missing API key
ResponsePairs ==
    { <<l, p>> \in Responses \X Responses :
        l = RespOk \/ p = RespOk \/ (l = Resp403 /\ p = Resp403) }

StatusText(status) ==
    CASE status = 200 -> "200"
      [] status = 403 -> "403"
      [] OTHER -> "0"

----------------------------------------------------------------------------
(* Exceptions: a type and the pieces its text is formatted from *)

Lit(x) == [s |-> x, n |-> <<>>]
Name(v) == [s |-> "", n |-> v]

NoError == [type |-> "none", text |-> <<>>]
PluginError(text) == [type |-> "PluginError", text |-> text]

\* str(e) of the HTTPError that response.raise_for_status() raises:
\* "<status> Client Error: <reason> for url: <url>"; the body is not part of it
HTTPErrorText(resp) ==
    << Lit(StatusText(resp.status)), Lit(" Client Error: "), Lit(" for url: ") >>

----------------------------------------------------------------------------
(* Authenticator._detect_base_domain *)

\* the name_parts the scan runs over: validation_name.split("."), without a
\* leading _acme-challenge label
DropAcmeLabel(name_parts) ==
    IF name_parts[1] = ACME_CHALLENGE_PREFIX THEN Tail(name_parts) ELSE name_parts

NameParts(validation_name) == DropAcmeLabel(Split(validation_name))

\* ".".join(name_parts[i:]) for the 1-based index i
PossibleDomain(name_parts, i) == Join(SubSeq(name_parts, i, Len(name_parts)))

\* ScanMatches whose loop runs over range(len(name_parts)), so that the last
\* label alone is a candidate too
ScanMatchesSingleLabel(name_parts, domain) ==
    { i \in 1..Len(name_parts) :
        \/ PossibleDomain(name_parts, i) = domain
        \/ EndsWith(domain, Dot \o PossibleDomain(name_parts, i)) }

ScanMatches(name_parts, domain) ==
    { i \in 1..(Len(name_parts) - 1) :
        \/ PossibleDomain(name_parts, i) = domain
        \/ EndsWith(domain, Dot \o PossibleDomain(name_parts, i)) }

\* self._domain_map[validation_name] = base; return base
Detected(map, validation_name, base) ==
    [ok |-> TRUE, base |-> base, map |-> (validation_name :> base) @@ map,
     error |-> NoError]

\* ScanBaseDomain that stores an entry for the name before it raises
ScanBaseDomainCachesFailure(map, validation_name, name_parts, matches) ==
    IF matches # {}
    THEN Detected(map, validation_name,
                  PossibleDomain(name_parts,
                                 CHOOSE k \in matches : \A m \in matches : k <= m))
    ELSE [ok |-> FALSE, base |-> None, map |-> (validation_name :> None) @@ map,
          error |-> PluginError(
              << Lit("Could not determine base domain for "),
                 Name(validation_name),
                 Lit(". Please specify the domain in the credentials file or environment variable "),
                 Lit("DOMAIN_CDMON"), Lit(".") >>)]

\* the for loop over name_parts and the raise after it
ScanBaseDomain(map, validation_name, name_parts, matches) ==
    IF matches # {}
    THEN Detected(map, validation_name,
                  PossibleDomain(name_parts,
                                 CHOOSE k \in matches : \A m \in matches : k <= m))
    ELSE [ok |-> FALSE, base |-> None, map |-> map,
          error |-> PluginError(
              << Lit("Could not determine base domain for "),
                 Name(validation_name),
                 Lit(". Please specify the domain in the credentials file or environment variable "),
                 Lit("DOMAIN_CDMON"), Lit(".") >>)]

\* DetectBaseDomain that never reads self._domain_map
DetectBaseDomainNoCache(map, config_domain, domain, validation_name) ==
    IF config_domain # None /\ EndsWith(validation_name, config_domain)
    THEN Detected(map, validation_name, config_domain)
    ELSE LET name_parts == NameParts(validation_name)
         IN  ScanBaseDomain(map, validation_name, name_parts,
                            ScanMatches(name_parts, domain))

DetectBaseDomain(map, config_domain, domain, validation_name) ==
    IF validation_name \in DOMAIN map
    THEN [ok |-> TRUE, base |-> map[validation_name], map |-> map, error |-> NoError]
    ELSE IF config_domain # None /\ EndsWith(validation_name, config_domain)
    THEN Detected(map, validation_name, config_domain)
    ELSE LET name_parts == NameParts(validation_name)
         IN  ScanBaseDomain(map, validation_name, name_parts,
                            ScanMatches(name_parts, domain))

(* Authenticator._get_base_domain_for_validation *)
GetBaseDomainForValidation(map, validation_name) ==
    IF validation_name \in DOMAIN map
    THEN [ok |-> TRUE, base |-> map[validation_name], error |-> NoError]
    ELSE [ok |-> FALSE, base |-> None,
          error |-> PluginError(
              << Lit("Could not find base domain for "), Name(validation_name),
                 Lit(". Please ensure _perform is called before _cleanup.") >>)]

\* SubdomainOf that cuts off the base domain but not the "." before it
SubdomainOfKeepsDot(validation_name, base_domain) ==
    IF EndsWith(validation_name, Dot \o base_domain)
    THEN SubSeq(validation_name, 1, Len(validation_name) - Len(base_domain))
    ELSE <<>>

(* Authenticator._get_cdmon_subdomain *)
\* the branches after base_domain is known
SubdomainOf(validation_name, base_domain) ==
    IF EndsWith(validation_name, Dot \o base_domain)
    THEN SubSeq(validation_name, 1, Len(validation_name) - Len(base_domain) - 1)
    ELSE <<>>

GetCdmonSubdomain(map, validation_name) ==
    LET b == GetBaseDomainForValidation(map, validation_name)
    IN  IF ~b.ok THEN [ok |-> FALSE, subdomain |-> <<>>, error |-> b.error]
        ELSE [ok |-> TRUE, subdomain |-> SubdomainOf(validation_name, b.base),
              error |-> NoError]

\* FormatAcmeSubdomain that does not look for a prefix that is already there
FormatAcmeSubdomainAlwaysPrefixes(subdomain) ==
    IF subdomain = <<>> THEN ACME_CHALLENGE_PREFIX
    ELSE ACME_CHALLENGE_PREFIX \o Dot \o subdomain

(* Authenticator._format_acme_subdomain *)
FormatAcmeSubdomain(subdomain) ==
    IF StartsWith(subdomain, ACME_CHALLENGE_PREFIX) THEN subdomain
    ELSE IF subdomain = <<>> THEN ACME_CHALLENGE_PREFIX
    ELSE ACME_CHALLENGE_PREFIX \o Dot \o subdomain

----------------------------------------------------------------------------
(* The provider: what the four endpoints do to its record list *)

Record(id, domain, type, name, content, ttl) ==
    [id |-> id, domain |-> domain, type |-> type, name |-> name,
     content |-> content, ttl |-> ttl]

\* the request a POST carries: its endpoint and the fields of its data
Call(endpoint, domain, type, name, content, ttl, id) ==
    [endpoint |-> endpoint, domain |-> domain, type |-> type, name |-> name,
     content |-> content, ttl |-> ttl, id |-> id]

\* an identifier the provider has not handed out to a record it still holds
NewId(recs) ==
    CHOOSE n \in 1..(Len(recs) + 1) :
        /\ \A i \in 1..Len(recs) : recs[i].id # n
        /\ \A m \in 1..(n - 1) : \E i \in 1..Len(recs) : recs[i].id = m

\* dns/records: data.records of the domain
ProviderList(recs, domain) == SelectSeq(recs, LAMBDA r : r.domain = domain)

\* dns/record/add
ProviderAdd(recs, call) ==
    Append(recs, Record(NewId(recs), call.domain, call.type, call.name,
                        call.content, call.ttl))

\* dns/record/edit: the record with the request's id takes the request's fields
ProviderEdit(recs, call) ==
    [i \in 1..Len(recs) |->
        IF recs[i].id = call.id /\ recs[i].domain = call.domain
        THEN Record(recs[i].id, recs[i].domain, call.type, call.name,
                    call.content, call.ttl)
        ELSE recs[i]]

\* dns/record/delete: the record with the request's id goes
ProviderDelete(recs, call) ==
    SelectSeq(recs, LAMBDA r : ~(r.id = call.id /\ r.domain = call.domain))

----------------------------------------------------------------------------
(* Authenticator._find_txt_records *)

IsTxtAt(record, acme_subdomain) ==
    record.type = "TXT" /\ record.name = acme_subdomain

ListCall(domain) == Call("dns/records", domain, "", <<>>, "", 0, 0)

\* FindTxtRecords that returns every record the provider lists for the domain,
\* whatever its type and name
FindTxtRecordsUnfiltered(recs, domain, subdomain, resp, compat) ==
    LET returns(list, success) ==
            [raised |-> FALSE, error |-> NoError, txt_records |-> list,
             success |-> success, call |-> ListCall(domain)]
    IN  IF ~resp.conn THEN returns(<<>>, FALSE)
        ELSE IF resp.status >= 400 THEN returns(<<>>, FALSE)
        ELSE IF ~resp.decodable
        THEN IF compat THEN returns(<<>>, FALSE)
             ELSE [raised |-> TRUE,
                   error |-> [type |-> "ValueError", text |-> <<Lit("Expecting value")>>],
                   txt_records |-> <<>>, success |-> FALSE, call |-> ListCall(domain)]
        ELSE IF resp.success # "true" THEN returns(<<>>, FALSE)
        ELSE returns(ProviderList(recs, domain), TRUE)

\* raised: the exception left the method; otherwise txt_records is returned
FindTxtRecords(recs, domain, subdomain, resp, compat) ==
    LET acme_subdomain == FormatAcmeSubdomain(subdomain)
        returns(list, success) ==
            [raised |-> FALSE, error |-> NoError, txt_records |-> list,
             success |-> success, call |-> ListCall(domain)]
    IN  IF ~resp.conn THEN returns(<<>>, FALSE)
        ELSE IF resp.status >= 400 THEN returns(<<>>, FALSE)
        ELSE IF ~resp.decodable
        THEN IF compat THEN returns(<<>>, FALSE)
             ELSE [raised |-> TRUE,
                   error |-> [type |-> "ValueError", text |-> <<Lit("Expecting value")>>],
                   txt_records |-> <<>>, success |-> FALSE, call |-> ListCall(domain)]
        ELSE IF resp.success # "true" THEN returns(<<>>, FALSE)
        ELSE returns(SelectSeq(ProviderList(recs, domain),
                               LAMBDA r : IsTxtAt(r, acme_subdomain)), TRUE)

----------------------------------------------------------------------------
(* Authenticator._create_dns_txt_record, _edit_dns_txt_record,             *)
(* _delete_dns_record: one POST and the reading of its response            *)

\* response_data.get("message", "Unknown error")
ErrorMsg(resp) == IF resp.message = NoMessage THEN "Unknown error" ELSE resp.message

\* PostRecord that reads every decodable 2xx body as a success, whatever its
\* success flag says
PostRecordIgnoresFlag(recs, call, what, applied, resp, compat) ==
    LET prefix == Lit("Error " \o what \o " DNS record: ")
        fails(error) == [ok |-> FALSE, error |-> error, records |-> recs, call |-> call]
    IN  IF ~resp.conn
        THEN fails(PluginError(<<prefix, Lit("connection failed")>>))
        ELSE IF resp.status >= 400
        THEN fails(PluginError(<<prefix>> \o HTTPErrorText(resp)))
        ELSE IF ~resp.decodable
        THEN IF compat THEN fails(PluginError(<<prefix, Lit("Expecting value")>>))
             ELSE fails([type |-> "ValueError", text |-> <<Lit("Expecting value")>>])
        ELSE [ok |-> TRUE, error |-> NoError, records |-> applied, call |-> call]

\* the try block the three methods share; what is the text after "Error "
\* ("creating", "editing", "deleting"), applied is the provider's list once the
\* request was accepted
PostRecord(recs, call, what, applied, resp, compat) ==
    LET prefix == Lit("Error " \o what \o " DNS record: ")
        fails(error) == [ok |-> FALSE, error |-> error, records |-> recs, call |-> call]
    IN  IF ~resp.conn
        THEN fails(PluginError(<<prefix, Lit("connection failed")>>))
        ELSE IF resp.status >= 400
        THEN fails(PluginError(<<prefix>> \o HTTPErrorText(resp)))
        ELSE IF ~resp.decodable
        THEN IF compat THEN fails(PluginError(<<prefix, Lit("Expecting value")>>))
             ELSE fails([type |-> "ValueError", text |-> <<Lit("Expecting value")>>])
        ELSE IF resp.success # "true"
        THEN fails(PluginError(<<prefix, Lit(ErrorMsg(resp))>>))
        ELSE [ok |-> TRUE, error |-> NoError, records |-> applied, call |-> call]

CreateDnsTxtRecord(recs, domain, name, content, resp, compat) ==
    LET call == Call("dns/record/add", domain, "TXT", name, content, DEFAULT_TTL, 0)
    IN  PostRecord(recs, call, "creating", ProviderAdd(recs, call), resp, compat)

EditDnsTxtRecord(recs, domain, name, content, record_id, resp, compat) ==
    LET call == Call("dns/record/edit", domain, "TXT", name, content, DEFAULT_TTL,
                     record_id)
    IN  PostRecord(recs, call, "editing", ProviderEdit(recs, call), resp, compat)

DeleteDnsRecord(recs, domain, record_id, resp, compat) ==
    LET call == Call("dns/record/delete", domain, "", <<>>, "", 0, record_id)
    IN  PostRecord(recs, call, "deleting", ProviderDelete(recs, call), resp, compat)

----------------------------------------------------------------------------
(* Authenticator._create_txt_record and _delete_txt_record                 *)

\* what one invocation did: its outcome, the provider's list after it, the
\* POSTs it issued in order, how its list step ended ("ok": the provider's
\* records were read, "swallowed": a failure was logged and [] returned,
\* "raised": the exception left _find_txt_records), how many records the list
\* step returned, and the response to the POST after it
Result(ok, error, recs, calls, base, acme, listed, found, post) ==
    [ok |-> ok, error |-> error, records |-> recs, calls |-> calls, base |-> base,
     acme |-> acme, listed |-> listed, found |-> found, post |-> post]

\* the exception left before any POST
Raised(error, recs) ==
    Result(FALSE, error, recs, <<>>, None, <<>>, "none", <<>>, NoResponse)

Listed(f) == IF f.raised THEN "raised" ELSE IF f.success THEN "ok" ELSE "swallowed"

\* CreateTxtRecord that never looks at txt_records and always creates
CreateTxtRecordAlwaysCreates(map, recs, subdomain, validation, validation_name, list_resp, post_resp, compat) ==
    LET b == GetBaseDomainForValidation(map, validation_name)
        domain == b.base
        acme_subdomain == FormatAcmeSubdomain(subdomain)
        f == FindTxtRecords(recs, domain, subdomain, list_resp, compat)
        p == CreateDnsTxtRecord(recs, domain, acme_subdomain, validation,
                                post_resp, compat)
    IN  IF ~b.ok THEN Raised(b.error, recs)
        ELSE IF f.raised
        THEN Result(FALSE, f.error, recs, <<f.call>>, domain, acme_subdomain,
                    Listed(f), <<>>, NoResponse)
        ELSE Result(p.ok, p.error, p.records, <<f.call, p.call>>, domain,
                    acme_subdomain, Listed(f), f.txt_records, post_resp)

\* list_resp answers the dns/records POST, post_resp the POST that follows it
CreateTxtRecord(map, recs, subdomain, validation, validation_name, list_resp, post_resp, compat) ==
    LET b == GetBaseDomainForValidation(map, validation_name)
        domain == b.base
        acme_subdomain == FormatAcmeSubdomain(subdomain)
        f == FindTxtRecords(recs, domain, subdomain, list_resp, compat)
        p == IF f.txt_records # <<>>
             THEN EditDnsTxtRecord(recs, domain, acme_subdomain, validation,
                                   f.txt_records[1].id, post_resp, compat)
             ELSE CreateDnsTxtRecord(recs, domain, acme_subdomain, validation,
                                     post_resp, compat)
    IN  IF ~b.ok THEN Raised(b.error, recs)
        ELSE IF f.raised
        THEN Result(FALSE, f.error, recs, <<f.call>>, domain, acme_subdomain,
                    Listed(f), <<>>, NoResponse)
        ELSE Result(p.ok, p.error, p.records, <<f.call, p.call>>, domain,
                    acme_subdomain, Listed(f), f.txt_records, post_resp)

DeleteTxtRecord(map, recs, subdomain, validation, validation_name, list_resp, post_resp, compat) ==
    LET b == GetBaseDomainForValidation(map, validation_name)
        domain == b.base
        acme_subdomain == FormatAcmeSubdomain(subdomain)
        f == FindTxtRecords(recs, domain, subdomain, list_resp, compat)
        p == DeleteDnsRecord(recs, domain, f.txt_records[1].id, post_resp, compat)
    IN  IF ~b.ok THEN Raised(b.error, recs)
        ELSE IF f.raised
        THEN Result(FALSE, f.error, recs, <<f.call>>, domain, acme_subdomain,
                    Listed(f), <<>>, NoResponse)
        ELSE IF f.txt_records # <<>>
        THEN Result(p.ok, p.error, p.records, <<f.call, p.call>>, domain,
                    acme_subdomain, Listed(f), f.txt_records, post_resp)
        ELSE Result(TRUE, NoError, recs, <<f.call>>, domain, acme_subdomain,
                    Listed(f), f.txt_records, NoResponse)

----------------------------------------------------------------------------
(* Authenticator._perform and _cleanup *)

\* Wrapped that lets the exception of the try block pass as it is
WrappedNotAtAll(prefix, res) == [cause |-> res.error] @@ res

\* except Exception as e: raise errors.PluginError(f"<prefix>: {e}"); cause is
\* the exception e that the try block raised
Wrapped(prefix, res) ==
    IF res.ok THEN [cause |-> NoError] @@ res
    ELSE [cause |-> res.error] @@
         [res EXCEPT !.error = PluginError(<<Lit(prefix)>> \o res.error.text)]

\* the body of _perform's try block; map is self._domain_map after it
PerformBody(map, config_domain, recs, domain, validation_name, validation, list_resp, post_resp, compat) ==
    LET d == DetectBaseDomain(map, config_domain, domain, validation_name)
        s == GetCdmonSubdomain(d.map, validation_name)
    IN  IF ~d.ok THEN [map |-> d.map, res |-> Raised(d.error, recs)]
        ELSE IF ~s.ok THEN [map |-> d.map, res |-> Raised(s.error, recs)]
        ELSE [map |-> d.map,
              res |-> CreateTxtRecord(d.map, recs, s.subdomain, validation,
                                      validation_name, list_resp, post_resp, compat)]

\* CleanupBody that detects the base domain again from its own domain argument
\* instead of reading the one _perform stored
CleanupBodyRedetects(map, recs, domain, validation_name, validation, list_resp, post_resp, compat) ==
    LET d == DetectBaseDomain(<< >>, None, domain, validation_name)
        s == GetCdmonSubdomain(d.map, validation_name)
    IN  IF ~s.ok THEN Raised(s.error, recs)
        ELSE DeleteTxtRecord(d.map, recs, s.subdomain, validation, validation_name,
                             list_resp, post_resp, compat)

\* the body of _cleanup's try block
CleanupBody(map, recs, domain, validation_name, validation, list_resp, post_resp, compat) ==
    LET s == GetCdmonSubdomain(map, validation_name)
    IN  IF ~s.ok THEN Raised(s.error, recs)
        ELSE DeleteTxtRecord(map, recs, s.subdomain, validation, validation_name,
                             list_resp, post_resp, compat)

\* the record kept of an invocation: its arguments (the domain argument, which
\* only _detect_base_domain reads, is not kept), what the authenticator and the
\* provider held before it, and its result
Invocation(op, validation_name, validation, map, before, prior, res) ==
    [op |-> op, validation_name |-> validation_name, validation |-> validation, cached |-> validation_name \in DOMAIN map,
     before |-> before,
     repeats |-> /\ prior.op = "perform" /\ prior.ok
                 /\ prior.validation_name = validation_name
                 /\ prior.validation = validation,
     ok |-> res.ok, error |-> res.error, cause |-> res.cause, calls |-> res.calls,
     base |-> res.base, acme |-> res.acme, listed |-> res.listed,
     found |-> Len(res.found), post |-> res.post]

NoInvocation ==
    [op |-> "none", validation_name |-> <<>>, validation |-> "",
     cached |-> FALSE, before |-> <<>>, repeats |-> FALSE, ok |-> FALSE,
     error |-> NoError, cause |-> NoError, calls |-> <<>>, base |-> None,
     acme |-> <<>>, listed |-> "none", found |-> 0, post |-> NoResponse]

Perform(domain, validation_name, validation, list_resp, post_resp) ==
    \E b \in {PerformBody(_domain_map, _domain, records, domain, validation_name,
                         validation, list_resp, post_resp, json_compat)} :
    \E res \in {Wrapped("Error creating TXT record: ", b.res)} :
        /\ Len(res.records) <= MaxRecords
        /\ _domain_map' = b.map
        /\ records' = res.records
        /\ last' = Invocation("perform", validation_name, validation,
                              _domain_map, records, last, res)
        /\ performed' = IF res.calls # <<>>
                        THEN (validation_name :> [base |-> res.base, acme |-> res.acme])
                             @@ performed
                        ELSE performed
        /\ UNCHANGED <<_domain, json_compat, aside>>

\* Cleanup that drops the name's entry from self._domain_map when it is done
CleanupForgets(domain, validation_name, validation, list_resp, post_resp) ==
    \E res \in {Wrapped("Error cleaning up TXT record: ",
                       CleanupBody(_domain_map, records, domain, validation_name,
                                   validation, list_resp, post_resp, json_compat))} :
        /\ records' = res.records
        /\ last' = Invocation("cleanup", validation_name, validation,
                              _domain_map, records, last, res)
        /\ _domain_map' = [v \in DOMAIN _domain_map \ {validation_name} |-> _domain_map[v]]
        /\ UNCHANGED <<_domain, json_compat, performed, aside>>

Cleanup(domain, validation_name, validation, list_resp, post_resp) ==
    \E res \in {Wrapped("Error cleaning up TXT record: ",
                       CleanupBody(_domain_map, records, domain, validation_name,
                                   validation, list_resp, post_resp, json_compat))} :
        /\ records' = res.records
        /\ last' = Invocation("cleanup", validation_name, validation,
                              _domain_map, records, last, res)
        /\ UNCHANGED <<_domain_map, _domain, json_compat, performed, aside>>

----------------------------------------------------------------------------
(* Initial states and the specification *)

\* the records the account holds before certbot runs: an address record and a
\* challenge record at the apex that an earlier run left behind
InitialRecords ==
    << Record(1, D_ec, "A", <<"w">>, "192.0.2.1", 300),
       Record(2, D_ec, "TXT", ACME_CHALLENGE_PREFIX, "v0", DEFAULT_TTL) >>

Init ==
    /\ _domain_map = << >>
    /\ _domain \in ConfigDomains
    /\ records = InitialRecords
    /\ json_compat \in BOOLEAN
    /\ last = NoInvocation
    /\ performed = << >>
    /\ _api_key = "dummy_key"
    /\ transport = NoTransport
    /\ threads = NoThreads

PerformStep ==
    \E domain \in DomainArgs, validation_name \in ValidationNames,
       validation \in Validations, resp \in ResponsePairs :
        Perform(domain, validation_name, validation, resp[1], resp[2])

CleanupStep ==
    \E domain \in DomainArgs, validation_name \in ValidationNames,
       validation \in Validations, resp \in ResponsePairs :
        Cleanup(domain, validation_name, validation, resp[1], resp[2])

Next == PerformStep \/ CleanupStep

Spec == Init /\ [][Next]_vars

----------------------------------------------------------------------------
(* What the claims speak of *)

\* how many of the invocation's POSTs went to the endpoint
CountCalls(inv, endpoint) ==
    Cardinality({ i \in 1..Len(inv.calls) : inv.calls[i].endpoint = endpoint })

\* the positions of the TXT records named host under the base domain
TxtAt(recs, base, host) ==
    { i \in 1..Len(recs) : recs[i].domain = base /\ IsTxtAt(recs[i], host) }

\* the error's text contains the piece
Carries(error, piece) == \E i \in 1..Len(error.text) : error.text[i].s = piece

\* the records the list step was given, when the provider answered it
MatchesListed(inv) ==
    IF inv.listed = "ok" THEN TxtAt(inv.before, inv.base, inv.acme) ELSE {}

\* the base domains a validation name can be resolved to
CandidateBases(validation_name) ==
    { b \in DomainArgs \cup (ConfigDomains \ {None}) : EndsWith(validation_name, Dot \o b) }

\* no TXT record at the challenge host of the invocation's validation name,
\* under the stored base domain or, without one, under any it resolves to
AbsentBefore(inv, map) ==
    IF inv.validation_name \in DOMAIN map
    THEN TxtAt(inv.before, map[inv.validation_name],
               FormatAcmeSubdomain(SubdomainOf(inv.validation_name,
                                               map[inv.validation_name]))) = {}
    ELSE \A b \in CandidateBases(inv.validation_name) :
            TxtAt(inv.before, b,
                  FormatAcmeSubdomain(SubdomainOf(inv.validation_name, b))) = {}

----------------------------------------------------------------------------
(* C1: in _create_txt_record, a list step that returns a TXT record at the  *)
(* challenge host is followed by exactly one edit and no create; one that   *)
(* returns no such record by exactly one create and no edit.                *)
C1_UpsertEditsOrCreates ==
    (last.op = "perform" /\ last.listed \in {"ok", "swallowed"}) =>
        /\ MatchesListed(last) # {} =>
              /\ CountCalls(last, "dns/record/edit") = 1
              /\ CountCalls(last, "dns/record/add") = 0
              /\ last.calls[2].endpoint = "dns/record/edit"
              /\ last.calls[2].name = last.acme
        /\ MatchesListed(last) = {} =>
              /\ CountCalls(last, "dns/record/add") = 1
              /\ CountCalls(last, "dns/record/edit") = 0
              /\ last.calls[2].endpoint = "dns/record/add"
              /\ last.calls[2].name = last.acme

\* a _perform whose list step returned a record at the host, and which edited
C1_Witness ==
    /\ last.op = "perform" /\ last.listed = "ok"
    /\ MatchesListed(last) # {}
    /\ CountCalls(last, "dns/record/edit") = 1

(* C2: after a _perform that returns without error the base domain holds    *)
(* exactly one TXT record at the challenge host, with the given value.      *)
C2_PerformLeavesExactlyOne ==
    (last.op = "perform" /\ last.ok) =>
        /\ Cardinality(TxtAt(records, last.base, last.acme)) = 1
        /\ \A i \in TxtAt(records, last.base, last.acme) :
              records[i].content = last.validation

(* C3: a second _perform with the same validation name and value leaves     *)
(* exactly one TXT record with that value and issues an edit, not a create. *)
C3_PerformIdempotent ==
    (last.op = "perform" /\ last.ok /\ last.repeats) =>
        /\ Cardinality(TxtAt(records, last.base, last.acme)) = 1
        /\ \A i \in TxtAt(records, last.base, last.acme) :
              records[i].content = last.validation
        /\ CountCalls(last, "dns/record/edit") = 1
        /\ CountCalls(last, "dns/record/add") = 0

(* C4: a _cleanup whose list step returns a TXT record at the challenge     *)
(* host issues exactly one delete, and after a _cleanup that returns        *)
(* without error no TXT record at that host remains under the base domain.  *)
C4_CleanupRemoves ==
    last.op = "cleanup" =>
        /\ MatchesListed(last) # {} => CountCalls(last, "dns/record/delete") = 1
        /\ last.ok => TxtAt(records, last.base, last.acme) = {}

(* C5: with no TXT record at the challenge host, _cleanup issues no delete, *)
(* leaves the provider's records unchanged and returns without raising      *)
(* (a list call that itself raises apart).                                  *)
C5_CleanupAbsentIsNoop ==
    (/\ last.op = "cleanup" /\ last.listed # "raised"
     /\ AbsentBefore(last, _domain_map)) =>
        /\ CountCalls(last, "dns/record/delete") = 0
        /\ records = last.before
        /\ last.ok

(* C6: a _cleanup for a validation name without a _domain_map entry         *)
(* resolves the base domain itself and reaches the list call.               *)
C6_CleanupResolvesItself ==
    (/\ last.op = "cleanup" /\ ~last.cached
     /\ \A d \in DomainArgs :
           DetectBaseDomain(<< >>, _domain, d, last.validation_name).ok) =>
        /\ last.calls # <<>>
        /\ last.calls[1].endpoint = "dns/records"

(* C7: a _cleanup for a validation name that a _perform resolved addresses  *)
(* its list and delete calls to the base domain and challenge host that     *)
(* _perform used.                                                           *)
C7_CleanupUsesPerformedDomain ==
    (last.op = "cleanup" /\ last.validation_name \in DOMAIN performed) =>
        /\ last.calls # <<>>
        /\ last.calls[1].endpoint = "dns/records"
        /\ \A i \in 1..Len(last.calls) :
              last.calls[i].domain = performed[last.validation_name].base
        /\ last.acme = performed[last.validation_name].acme
        /\ \A i \in 1..Len(last.calls) :
              last.calls[i].endpoint = "dns/record/delete" =>
                 \E k \in TxtAt(last.before, performed[last.validation_name].base,
                                performed[last.validation_name].acme) :
                    last.before[k].id = last.calls[i].id

\* a _cleanup after a _perform of the same name that found and deleted its record
C7_Witness ==
    /\ last.op = "cleanup" /\ last.validation_name \in DOMAIN performed
    /\ last.ok
    /\ CountCalls(last, "dns/record/delete") = 1
    /\ performed[last.validation_name].base = D_sec

(* C8: a failed list call makes the enclosing _perform or _cleanup fail,    *)
(* and no create, edit or delete call follows it.                           *)
C8_FailedListFails ==
    (last.op \in {"perform", "cleanup"} /\ last.listed \in {"swallowed", "raised"}) =>
        /\ ~last.ok
        /\ Len(last.calls) = 1

(* C9: a create answered with HTTP 403 and the message "No API key found in *)
(* request" fails with an error carrying the status code and the message.   *)
C9_CreateErrorCarriesStatusAndMessage ==
    (/\ last.op = "perform" /\ CountCalls(last, "dns/record/add") = 1
     /\ last.post = Resp403) =>
        /\ ~last.ok
        /\ Carries(last.error, StatusText(last.post.status))
        /\ Carries(last.error, last.post.message)

C11_FailuresArePluginErrors ==
    (last.op \in {"perform", "cleanup"} /\ ~last.ok) =>
        /\ last.cause # NoError
        /\ last.error.type = "PluginError"
        /\ Len(last.error.text) = 1 + Len(last.cause.text)
        /\ last.error.text[1] =
              Lit(IF last.op = "perform" THEN "Error creating TXT record: "
                  ELSE "Error cleaning up TXT record: ")
        /\ SubSeq(last.error.text, 2, Len(last.error.text)) = last.cause.text

\* a _perform whose list call raised an exception that is not a PluginError
C11_Witness ==
    /\ last.op = "perform" /\ ~last.ok
    /\ last.cause.type = "ValueError"
    /\ last.error.type = "PluginError"

----------------------------------------------------------------------------
(* The helper methods called on their own, as the unit tests call them, on  *)
(* an authenticator whose API key the provider refuses                      *)

\* "be.c": ends with the characters of "e.c" without a label boundary
D_bec == <<"b", "e", ".", "c">>
\* "_acme-challenge.be.c"
V_bec == ACME_CHALLENGE_PREFIX \o Dot \o D_bec
\* "t.e.c": a validation name without the _acme-challenge label
T_ec == <<"t">> \o Dot \o D_ec

HelperNames == ValidationNames \cup { V_bec, T_ec, D_ec }

HelperDomainArgs == DomainArgs \cup { D_bec }

HelperConfigDomains == ConfigDomains \cup { D_sec }

\* the subdomain arguments of _format_acme_subdomain: "", "s",
\* "_acme-challenge", "_acme-challenge.s", "_acme-challenges"
Subdomains ==
    { <<>>, <<"s">>, ACME_CHALLENGE_PREFIX, ACME_CHALLENGE_PREFIX \o Dot \o <<"s">>,
      ACME_CHALLENGE_PREFIX \o <<"s">> }

\* the record kept of a helper call: its arguments, self._domain_map before
\* it, and what it returned (value) or raised (error)
HelperCall(op, domain, validation_name, subdomain, map, ok, value, error) ==
    [op |-> op, domain |-> domain, validation_name |-> validation_name,
     subdomain |-> subdomain, map |-> map,
     cached |-> validation_name \in DOMAIN map,
     ok |-> ok, value |-> value, error |-> error]

DetectBaseDomainCall(domain, validation_name) ==
    \E d \in {DetectBaseDomain(_domain_map, _domain, domain, validation_name)} :
        /\ _domain_map' = d.map
        /\ last' = HelperCall("_detect_base_domain", domain, validation_name, <<>>,
                              _domain_map, d.ok, d.base, d.error)
        /\ UNCHANGED <<_domain, records, json_compat, performed, aside>>

GetCdmonSubdomainCall(validation_name) ==
    \E s \in {GetCdmonSubdomain(_domain_map, validation_name)} :
        /\ last' = HelperCall("_get_cdmon_subdomain", <<>>, validation_name, <<>>,
                              _domain_map, s.ok, s.subdomain, s.error)
        /\ UNCHANGED <<_domain_map, _domain, records, json_compat, performed, aside>>

FormatAcmeSubdomainCall(subdomain) ==
    /\ last' = HelperCall("_format_acme_subdomain", <<>>, <<>>, subdomain,
                          _domain_map, TRUE, FormatAcmeSubdomain(subdomain), NoError)
    /\ UNCHANGED <<_domain_map, _domain, records, json_compat, performed, aside>>

HelperInit ==
    /\ _domain_map = << >>
    /\ _domain \in HelperConfigDomains
    /\ records = InitialRecords
    \* no response body is decoded here: every POST is answered with 403
    /\ json_compat = TRUE
    /\ last = NoInvocation
    /\ performed = << >>
    /\ _api_key = NoKey
    /\ transport = NoTransport
    /\ threads = NoThreads

DetectStep ==
    \E domain \in HelperDomainArgs, validation_name \in HelperNames :
        DetectBaseDomainCall(domain, validation_name)

SubdomainStep ==
    \E validation_name \in HelperNames : GetCdmonSubdomainCall(validation_name)

FormatStep == \E subdomain \in Subdomains : FormatAcmeSubdomainCall(subdomain)

\* _perform with the wider arguments; the provider answers every POST with 403
RefusedPerformStep ==
    \E domain \in HelperDomainArgs, validation_name \in HelperNames,
       validation \in Validations :
        Perform(domain, validation_name, validation, Resp403, Resp403)

HelperNext == DetectStep \/ SubdomainStep \/ FormatStep \/ RefusedPerformStep

HelperSpec == HelperInit /\ [][HelperNext]_vars

----------------------------------------------------------------------------
(* Authenticator._get_http_session: one logical POST of the session, whose  *)
(* adapter retries with Retry(total=MAX_RETRIES, status_forcelist=...,      *)
(* allowed_methods=["POST"]); session.post is called without a timeout      *)

\* the attempt ended without a response: connection refused, reset or broken
ConnectionFailure == 0

\* the statuses the provider answers an attempt with
TransportStatuses == { 200, 403, 404 } \cup RETRY_STATUS_FORCELIST

\* Retryable that takes every error status for a retryable one
RetryableAnyError(answer) == answer = ConnectionFailure \/ answer >= 400

\* the adapter sends the request again after this answer, budget permitting
Retryable(answer) == answer = ConnectionFailure \/ answer \in RETRY_STATUS_FORCELIST

\* session.post(url, json=data): the first attempt goes out
Post ==
    /\ transport.phase \in {"idle", "returned", "raised"}
    /\ transport' = [phase |-> "waiting", attempts |-> 1, retries |-> MAX_RETRIES,
                     answers |-> <<>>]
    /\ UNCHANGED <<_domain_map, _domain, records, json_compat, last, performed,
                   _api_key, threads>>

\* the provider answers the attempt under way; the adapter retries, gives up
\* (RetryError / ConnectionError) or hands the response to the caller
Answer(answer) ==
    /\ transport.phase = "waiting"
    /\ transport' =
          IF Retryable(answer)
          THEN IF transport.retries > 0
               THEN [phase |-> "waiting", attempts |-> transport.attempts + 1,
                     retries |-> transport.retries - 1,
                     answers |-> Append(transport.answers, answer)]
               ELSE [transport EXCEPT !.phase = "raised",
                                      !.answers = Append(transport.answers, answer)]
          ELSE [transport EXCEPT !.phase = "returned",
                                 !.answers = Append(transport.answers, answer)]
    /\ UNCHANGED <<_domain_map, _domain, records, json_compat, last, performed,
                   _api_key, threads>>

TransportInit ==
    /\ _domain_map = << >>
    /\ _domain = None
    /\ records = InitialRecords
    /\ json_compat = TRUE
    /\ last = NoInvocation
    /\ performed = << >>
    /\ _api_key = "dummy_key"
    /\ transport = NoTransport
    /\ threads = NoThreads

AnswerStep == \E answer \in TransportStatuses \cup {ConnectionFailure} : Answer(answer)

TransportNext == Post \/ AnswerStep

TransportSpec == TransportInit /\ [][TransportNext]_vars

\* the client runs whenever it can; nothing makes the provider answer
LiveTransportSpec == TransportSpec /\ WF_vars(Post)

----------------------------------------------------------------------------
(* Authenticator._validate_credentials, and the operations of an            *)
(* authenticator whose requests the provider accepts or refuses by token    *)

\* the environment variable is not set
Unset == "<unset>"

\* credentials.conf("api_key") and os.environ.get(API_KEY_CDMON)
ConfApiKeys == { NoKey, "dummy_key" }
EnvApiKeys == { Unset, NoKey, "env_key" }

\* credentials.conf("domain") and os.environ[DOMAIN_CDMON] ("" when unset)
ConfDomains == { None, D_ec }
EnvDomains == { None, D_sec }

\* "_acme-challenges.e.c": its first label begins with the characters of
\* _acme-challenge and is another label
V_lookalike == ACME_CHALLENGE_PREFIX \o <<"s">> \o Dot \o D_ec

SetupNames == { V_ec, V_lookalike }

\* ValidatedCredentials that reads the credentials file only
ValidatedCredentialsFileOnly(conf_api_key, env_api_key, conf_domain, env_domain, old_domain) ==
    IF conf_api_key = NoKey
    THEN [ok |-> FALSE, api_key |-> NoKey, domain |-> old_domain,
          error |-> PluginError(<<Lit("CDmon API key is required.")>>)]
    ELSE [ok |-> TRUE, api_key |-> conf_api_key,
          domain |-> IF conf_domain # None THEN conf_domain ELSE old_domain,
          error |-> NoError]

\* what _validate_credentials stores, or the error it raises before storing
ValidatedCredentials(conf_api_key, env_api_key, conf_domain, env_domain, old_domain) ==
    LET api_key == IF conf_api_key = NoKey /\ env_api_key # Unset
                   THEN env_api_key ELSE conf_api_key
        domain == IF conf_domain = None /\ env_domain # None
                  THEN env_domain ELSE conf_domain
    IN  IF api_key = NoKey
        THEN [ok |-> FALSE, api_key |-> NoKey, domain |-> old_domain,
              error |-> PluginError(<<Lit("CDmon API key is required.")>>)]
        ELSE [ok |-> TRUE, api_key |-> api_key,
              domain |-> IF domain # None THEN domain ELSE old_domain,
              error |-> NoError]

ValidateCredentials(conf_api_key, env_api_key, conf_domain, env_domain) ==
    \E c \in {ValidatedCredentials(conf_api_key, env_api_key, conf_domain,
                                   env_domain, _domain)} :
        /\ _api_key' = IF c.ok THEN c.api_key ELSE _api_key
        /\ _domain' = c.domain
        /\ last' = [op |-> "_validate_credentials", conf_api_key |-> conf_api_key,
                    env_api_key |-> env_api_key, conf_domain |-> conf_domain,
                    env_domain |-> env_domain, ok |-> c.ok, error |-> c.error]
        /\ UNCHANGED <<_domain_map, records, json_compat, performed, transport, threads>>

\* the provider answers every POST that carries no token with the 403 of
\* the missing API key, and accepts the others
ProviderAnswers(token) ==
    IF token = NoKey THEN { <<Resp403, Resp403>> } ELSE { <<RespOk, RespOk>> }

SetupInit ==
    /\ _domain_map = << >>
    /\ _domain = None
    /\ records = InitialRecords
    /\ json_compat = TRUE
    /\ last = NoInvocation
    /\ performed = << >>
    /\ _api_key = NoKey
    /\ transport = NoTransport
    /\ threads = NoThreads

ValidateStep ==
    \E conf_api_key \in ConfApiKeys, env_api_key \in EnvApiKeys,
       conf_domain \in ConfDomains, env_domain \in EnvDomains :
        ValidateCredentials(conf_api_key, env_api_key, conf_domain, env_domain)

SetupPerformStep ==
    \E validation_name \in SetupNames, validation \in Validations,
       resp \in ProviderAnswers(_api_key) :
        Perform(D_ec, validation_name, validation, resp[1], resp[2])

SetupCleanupStep ==
    \E validation_name \in SetupNames, validation \in Validations,
       resp \in ProviderAnswers(_api_key) :
        Cleanup(D_ec, validation_name, validation, resp[1], resp[2])

SetupNext == ValidateStep \/ SetupPerformStep \/ SetupCleanupStep

SetupSpec == SetupInit /\ [][SetupNext]_vars

----------------------------------------------------------------------------
(* _perform and _cleanup running concurrently on one authenticator: each    *)
(* invocation is a thread that takes the statements of its try block one at *)
(* a time, the POSTs included                                               *)

ThreadIds == { 1, 2 }

\* the validation name each thread works on
ThreadName(t) == IF t = 1 THEN V_ec ELSE V_sec

\* the domain certbot passes with the thread's validation name
ThreadDomain(t) == IF t = 1 THEN D_ec ELSE D_sec

\* the answers to the two POSTs of a concurrent invocation
ThreadResponses == { <<RespOk, RespOk>>, <<RespConnError, RespOk>>, <<RespOk, RespRejected>> }

\* the values, in the provider's order, of the TXT records at the host
Contents(recs, base, host) ==
    LET own == SelectSeq(recs, LAMBDA r : r.domain = base /\ IsTxtAt(r, host))
    IN  [i \in 1..Len(own) |-> own[i].content]

\* the cache entry of the name, None without one
Entry(map, validation_name) ==
    IF validation_name \in DOMAIN map THEN map[validation_name] ELSE None

\* what the invocation comes to when nothing else runs between its steps
Alone(op, map, config_domain, recs, domain, validation_name, validation, list_resp, post_resp, compat) ==
    LET b == IF op = "perform"
             THEN PerformBody(map, config_domain, recs, domain, validation_name,
                              validation, list_resp, post_resp, compat)
             ELSE [map |-> map,
                   res |-> CleanupBody(map, recs, domain, validation_name,
                                       validation, list_resp, post_resp, compat)]
    IN  [ok |-> b.res.ok, base |-> b.res.base, acme |-> b.res.acme,
         contents |-> Contents(b.res.records, b.res.base, b.res.acme),
         entry |-> Entry(b.map, validation_name)]

IdleThread ==
    [pc |-> "idle", op |-> "none", validation |-> "",
     list_resp |-> NoResponse, post_resp |-> NoResponse, subdomain |-> <<>>,
     base |-> None, txt_records |-> <<>>, ok |-> FALSE, raced |-> FALSE,
     alone |-> [ok |-> FALSE, base |-> None, acme |-> <<>>, contents |-> <<>>,
                entry |-> None]]

\* the threads after thread t took a step that left it as next: every other
\* thread that is inside an invocation has seen a step of another thread
Stepped(t, next) ==
    [u \in ThreadIds |->
        IF u = t THEN next
        ELSE IF threads[u].pc \in {"idle", "done"} THEN threads[u]
        ELSE [threads[u] EXCEPT !.raced = TRUE]]

\* certbot calls _perform or _cleanup on the thread
ThreadBegin(t, op, validation, list_resp, post_resp) ==
    /\ threads[t].pc \in {"idle", "done"}
    /\ threads' = Stepped(t,
          [IdleThread EXCEPT
              !.pc = IF op = "perform" THEN "detect" ELSE "subdomain",
              !.op = op, !.validation = validation,
              !.list_resp = list_resp, !.post_resp = post_resp,
              !.alone = Alone(op, _domain_map, _domain, records, ThreadDomain(t), ThreadName(t),
                              validation, list_resp, post_resp, json_compat)])
    /\ UNCHANGED <<_domain_map, _domain, records, json_compat, last, performed,
                   _api_key, transport>>

\* ThreadDetect whose assignment to self._domain_map replaces the whole map
ThreadDetectReplacesMap(t) ==
    /\ threads[t].pc = "detect"
    /\ \E d \in {DetectBaseDomain(_domain_map, _domain, ThreadDomain(t), ThreadName(t))} :
          /\ _domain_map' = IF d.ok THEN (ThreadName(t) :> d.base) ELSE d.map
          /\ threads' = Stepped(t, [threads[t] EXCEPT
                                       !.pc = IF d.ok THEN "subdomain" ELSE "done",
                                       !.ok = FALSE])
    /\ UNCHANGED <<_domain, records, json_compat, last, performed, _api_key, transport>>

\* self._detect_base_domain(domain, validation_name)
ThreadDetect(t) ==
    /\ threads[t].pc = "detect"
    /\ \E d \in {DetectBaseDomain(_domain_map, _domain, ThreadDomain(t), ThreadName(t))} :
          /\ _domain_map' = d.map
          /\ threads' = Stepped(t, [threads[t] EXCEPT
                                       !.pc = IF d.ok THEN "subdomain" ELSE "done",
                                       !.ok = FALSE])
    /\ UNCHANGED <<_domain, records, json_compat, last, performed, _api_key, transport>>

\* subdomain = self._get_cdmon_subdomain(validation_name)
ThreadSubdomain(t) ==
    /\ threads[t].pc = "subdomain"
    /\ \E s \in {GetCdmonSubdomain(_domain_map, ThreadName(t))} :
          threads' = Stepped(t, [threads[t] EXCEPT
                                    !.pc = IF s.ok THEN "list" ELSE "done",
                                    !.subdomain = s.subdomain, !.ok = FALSE])
    /\ UNCHANGED <<_domain_map, _domain, records, json_compat, last, performed,
                   _api_key, transport>>

\* domain = self._get_base_domain_for_validation(validation_name);
\* txt_records = self._find_txt_records(domain, subdomain)
ThreadList(t) ==
    /\ threads[t].pc = "list"
    /\ \E b \in {GetBaseDomainForValidation(_domain_map, ThreadName(t))} :
       \E f \in {FindTxtRecords(records, b.base, threads[t].subdomain,
                                threads[t].list_resp, json_compat)} :
          threads' = Stepped(t,
             IF ~b.ok \/ f.raised
             THEN [threads[t] EXCEPT !.pc = "done", !.ok = FALSE]
             ELSE IF threads[t].op = "cleanup" /\ f.txt_records = <<>>
             THEN [threads[t] EXCEPT !.pc = "done", !.ok = TRUE, !.base = b.base]
             ELSE [threads[t] EXCEPT !.pc = "mutate", !.base = b.base,
                                     !.txt_records = f.txt_records])
    /\ UNCHANGED <<_domain_map, _domain, records, json_compat, last, performed,
                   _api_key, transport>>

\* the _edit_dns_txt_record, _create_dns_txt_record or _delete_dns_record call
ThreadMutate(t) ==
    /\ threads[t].pc = "mutate"
    /\ \E acme_subdomain \in {FormatAcmeSubdomain(threads[t].subdomain)} :
       \E p \in {IF threads[t].op = "cleanup"
                 THEN DeleteDnsRecord(records, threads[t].base,
                                      threads[t].txt_records[1].id,
                                      threads[t].post_resp, json_compat)
                 ELSE IF threads[t].txt_records # <<>>
                 THEN EditDnsTxtRecord(records, threads[t].base, acme_subdomain,
                                       threads[t].validation,
                                       threads[t].txt_records[1].id,
                                       threads[t].post_resp, json_compat)
                 ELSE CreateDnsTxtRecord(records, threads[t].base, acme_subdomain,
                                         threads[t].validation,
                                         threads[t].post_resp, json_compat)} :
          /\ Len(p.records) <= MaxRecords
          /\ records' = p.records
          /\ threads' = Stepped(t, [threads[t] EXCEPT !.pc = "done", !.ok = p.ok])
    /\ UNCHANGED <<_domain_map, _domain, json_compat, last, performed, _api_key, transport>>

ConcurrentInit ==
    /\ _domain_map = << >>
    /\ _domain \in ConfigDomains
    /\ records = InitialRecords
    /\ json_compat = TRUE
    /\ last = NoInvocation
    /\ performed = << >>
    /\ _api_key = "dummy_key"
    /\ transport = NoTransport
    /\ threads = [t \in ThreadIds |-> IdleThread]

BeginStep ==
    \E t \in ThreadIds, op \in {"perform", "cleanup"}, validation \in Validations,
       resp \in ThreadResponses :
        ThreadBegin(t, op, validation, resp[1], resp[2])

ThreadDetectStep == \E t \in ThreadIds : ThreadDetect(t)

ThreadSubdomainStep == \E t \in ThreadIds : ThreadSubdomain(t)

ThreadListStep == \E t \in ThreadIds : ThreadList(t)

ThreadMutateStep == \E t \in ThreadIds : ThreadMutate(t)

ConcurrentNext ==
    \/ BeginStep
    \/ ThreadDetectStep
    \/ ThreadSubdomainStep
    \/ ThreadListStep
    \/ ThreadMutateStep

ConcurrentSpec == ConcurrentInit /\ [][ConcurrentNext]_vars

----------------------------------------------------------------------------
(* What the claims about the resolver speak of *)

\* the labels of the validation name, a leading _acme-challenge label apart
Labels(validation_name) ==
    IF Split(validation_name)[1] = ACME_CHALLENGE_PREFIX
    THEN Tail(Split(validation_name))
    ELSE Split(validation_name)

\* the suffixes of at least two labels that the domain being validated equals
\* or ends with after a "."
AcceptedSuffixes(validation_name, domain) ==
    { c \in { SubSeq(Labels(validation_name), i, Len(Labels(validation_name))) :
                 i \in 1..Len(Labels(validation_name)) } :
        /\ Len(c) >= 2
        /\ domain = Join(c) \/ EndsWith(domain, Dot \o Join(c)) }

\* the name equals the base domain or ends with "." and the base domain
LabelAligned(validation_name, base) ==
    validation_name = base \/ EndsWith(validation_name, Dot \o base)

\* the error's text names the validation name
NamesValidation(error, validation_name) ==
    \E i \in 1..Len(error.text) : error.text[i] = Name(validation_name)

(* C12: once _detect_base_domain has stored base domain b for validation    *)
(* name v, the entry never changes and every later call for v returns b,    *)
(* whatever the domain argument or the configured domain of that call.      *)
C12_ResolveIdempotent ==
    [][\A v \in DOMAIN _domain_map :
          /\ v \in DOMAIN _domain_map' /\ _domain_map'[v] = _domain_map[v]
          /\ (last'.op = "_detect_base_domain" /\ last'.validation_name = v) =>
                (last'.ok /\ last'.value = _domain_map[v])
          /\ (last'.op = "perform" /\ last'.validation_name = v) =>
                last'.base = _domain_map[v]
          /\ \A d \in HelperDomainArgs, c \in HelperConfigDomains :
                DetectBaseDomain(_domain_map, c, d, v) =
                    [ok |-> TRUE, base |-> _domain_map[v], map |-> _domain_map,
                     error |-> NoError]]_vars

\* a call for "_acme-challenge.s.e.c" with the domain argument "e.c" that
\* returned the stored "s.e.c", which the scan would not have found for it
C12_Witness ==
    /\ last.op = "_detect_base_domain" /\ last.cached
    /\ last.validation_name = V_sec /\ last.domain = D_ec
    /\ last.ok /\ last.value = D_sec

(* C13: without a cache entry and with a configured domain,                 *)
(* _detect_base_domain returns the configured domain exactly when the       *)
(* validation name equals it or ends with "." followed by it.               *)
C13_ConfiguredDomainAtLabelBoundary ==
    (last.op = "_detect_base_domain" /\ ~last.cached /\ _domain # None) =>
        ((last.ok /\ last.value = _domain)
            <=> LabelAligned(last.validation_name, _domain))

C15_FallsBackToConfiguredDomain ==
    (/\ last.op = "_detect_base_domain" /\ ~last.cached /\ _domain # None
     /\ ~LabelAligned(last.validation_name, _domain)
     /\ AcceptedSuffixes(last.validation_name, last.domain) = {}) =>
        (last.ok /\ last.value = _domain)

(* C16: when the scan accepts no suffix and no domain is configured,        *)
(* _detect_base_domain fails with an error that names the validation name   *)
(* and the domain setting, and a _perform failing so leaves _domain_map     *)
(* unchanged and issues no provider call.                                   *)
C16_UnresolvableFails ==
    [][/\ (/\ last'.op = "_detect_base_domain" /\ ~last'.cached /\ _domain = None
           /\ AcceptedSuffixes(last'.validation_name, last'.domain) = {}) =>
              /\ ~last'.ok
              /\ last'.error.type = "PluginError"
              /\ NamesValidation(last'.error, last'.validation_name)
              /\ Carries(last'.error, "DOMAIN_CDMON")
              /\ _domain_map' = _domain_map
       /\ (last'.op = "perform" /\ ~last'.cached /\ _domain = None) =>
             \A d \in HelperDomainArgs :
                (/\ AcceptedSuffixes(last'.validation_name, d) = {}
                 /\ Perform(d, last'.validation_name, last'.validation,
                            Resp403, Resp403)) =>
                   /\ ~last'.ok
                   /\ NamesValidation(last'.error, last'.validation_name)
                   /\ Carries(last'.error, "DOMAIN_CDMON")
                   /\ _domain_map' = _domain_map
                   /\ last'.calls = <<>>
                   /\ records' = records]_vars

\* a _perform that failed in the scan, before any POST
C16_Witness ==
    /\ last.op = "perform" /\ ~last.ok /\ ~last.cached /\ _domain = None
    /\ Carries(last.error, "Could not determine base domain for ")
    /\ last.calls = <<>>
    /\ last.validation_name \notin DOMAIN _domain_map

(* C17: every _domain_map entry v -> b satisfies: v equals b, or v ends     *)
(* with "." followed by b.                                                  *)
C17_CachedBaseIsLabelSuffix ==
    \A v \in DOMAIN _domain_map : LabelAligned(v, _domain_map[v])

(* C18: for a validation name ending with "." and the base domain,          *)
(* _get_cdmon_subdomain returns "" when the part before that suffix is      *)
(* _acme-challenge, the rest after "_acme-challenge." when the part starts  *)
(* with it, and the part unchanged otherwise.                               *)
C18_ExtractorStripsAcmePrefix ==
    (/\ last.op = "_get_cdmon_subdomain" /\ last.cached
     /\ EndsWith(last.validation_name, Dot \o last.map[last.validation_name])) =>
        LET raw == SubSeq(last.validation_name, 1,
                          Len(last.validation_name)
                          - Len(last.map[last.validation_name]) - 1)
        IN  /\ last.ok
            /\ last.value =
                  IF raw = ACME_CHALLENGE_PREFIX THEN <<>>
                  ELSE IF StartsWith(raw, ACME_CHALLENGE_PREFIX \o Dot)
                  THEN SubSeq(raw, Len(ACME_CHALLENGE_PREFIX) + 2, Len(raw))
                  ELSE raw

(* C19: _get_cdmon_subdomain never raises: it returns a string for every    *)
(* validation name, the empty string when the name has no cache entry or    *)
(* does not end with "." and its base domain.                               *)
C19_ExtractorNeverFails ==
    last.op = "_get_cdmon_subdomain" =>
        /\ last.ok
        /\ (\/ ~last.cached
            \/ ~EndsWith(last.validation_name,
                         Dot \o last.map[last.validation_name])) =>
              last.value = <<>>

(* C20: _format_acme_subdomain returns _acme-challenge for the empty        *)
(* subdomain, _acme-challenge.<subdomain> for one that does not start with  *)
(* _acme-challenge, and the input unchanged when it starts with             *)
(* _acme-challenge; applied to its own result it returns that result.       *)
C20_FormatChallengeHost ==
    last.op = "_format_acme_subdomain" =>
        /\ last.subdomain = <<>> => last.value = ACME_CHALLENGE_PREFIX
        /\ (last.subdomain # <<>> /\ ~StartsWith(last.subdomain, ACME_CHALLENGE_PREFIX)) =>
              last.value = ACME_CHALLENGE_PREFIX \o Dot \o last.subdomain
        /\ StartsWith(last.subdomain, ACME_CHALLENGE_PREFIX) =>
              last.value = last.subdomain
        /\ FormatAcmeSubdomain(last.value) = last.value

\* a subdomain that already carries the prefix, returned as it came
C20_Witness ==
    /\ last.op = "_format_acme_subdomain"
    /\ last.subdomain = ACME_CHALLENGE_PREFIX \o Dot \o <<"s">>
    /\ last.value = last.subdomain

(* C21: for a validation name v that carries the _acme-challenge prefix and *)
(* a base domain b with v ending in "." + b, the formatted extracted        *)
(* subdomain followed by "." and b is v again; so is the record name that   *)
(* _perform sends followed by "." and the base domain it sends it for.      *)
C21_RoundTrip ==
    /\ (/\ last.op = "_get_cdmon_subdomain" /\ last.cached
        /\ StartsWith(last.validation_name, ACME_CHALLENGE_PREFIX)
        /\ EndsWith(last.validation_name, Dot \o last.map[last.validation_name])) =>
          /\ last.ok
          /\ FormatAcmeSubdomain(last.value) \o Dot \o last.map[last.validation_name]
                = last.validation_name
    /\ (/\ last.op = "perform" /\ last.calls # <<>>
        /\ StartsWith(last.validation_name, ACME_CHALLENGE_PREFIX)
        /\ EndsWith(last.validation_name, Dot \o last.base)) =>
          last.acme \o Dot \o last.base = last.validation_name

\* the subdomain of "_acme-challenge.s.e.c" under "e.c", extracted and formatted
C21_Witness ==
    /\ last.op = "_get_cdmon_subdomain" /\ last.cached /\ last.ok
    /\ last.validation_name = V_sec /\ last.map[V_sec] = D_ec
    /\ FormatAcmeSubdomain(last.value) = ACME_CHALLENGE_PREFIX \o Dot \o <<"s">>

(* C27: every _perform and _cleanup issues exactly one list call, first;    *)
(* every create, edit or delete call follows it, for the same base domain,  *)
(* and there is at most one: two calls when a record is created, edited or  *)
(* deleted, one call when _cleanup finds nothing.                           *)
C27_ListThenMutate ==
    last.op \in {"perform", "cleanup"} =>
        /\ CountCalls(last, "dns/records") = 1
        /\ last.calls # <<>> /\ last.calls[1].endpoint = "dns/records"
        /\ Len(last.calls) <= 2
        /\ \A i \in 2..Len(last.calls) : last.calls[i].domain = last.calls[1].domain
        /\ (last.op = "perform" /\ last.ok) =>
              (Len(last.calls) = 2 /\ last.calls[2].endpoint
                                       \in {"dns/record/add", "dns/record/edit"})
        /\ (last.op = "cleanup" /\ last.ok /\ last.found > 0) =>
              (Len(last.calls) = 2 /\ last.calls[2].endpoint = "dns/record/delete")
        /\ (last.op = "cleanup" /\ last.ok /\ last.found = 0) => Len(last.calls) = 1

(* C28: self._domain_map is empty at construction; no _perform and no       *)
(* _cleanup, successful or failed, removes an entry or changes its value,   *)
(* and every _perform that resolved its base domain has an entry for its    *)
(* validation name afterwards.                                              *)
C28_CacheGrowsMonotonically ==
    /\ _domain_map = << >>
    /\ [][/\ \A v \in DOMAIN _domain_map :
                v \in DOMAIN _domain_map' /\ _domain_map'[v] = _domain_map[v]
          /\ (last'.op = "perform" /\ last'.calls # <<>>) =>
                /\ last'.validation_name \in DOMAIN _domain_map'
                /\ _domain_map'[last'.validation_name] = last'.base]_vars

\* a failed _cleanup after the _performs of both names: both entries are kept
C28_Witness ==
    /\ last.op = "cleanup" /\ ~last.ok
    /\ DOMAIN _domain_map = ValidationNames

(* C29: _perform and _cleanup leave every provider record unchanged that is *)
(* not a TXT record at the challenge host of the name being processed:      *)
(* records of other types, at other hosts and under other base domains.     *)
C29_OtherRecordsUntouched ==
    last.op \in {"perform", "cleanup"} =>
        \A i \in 1..Len(last.before) :
            ~(last.before[i].domain = last.base /\ IsTxtAt(last.before[i], last.acme)) =>
                \E j \in 1..Len(records) : records[j] = last.before[i]

\* a _cleanup that deleted its record while the address record and a TXT
\* record at another host or under another base domain were there
C29_Witness ==
    /\ last.op = "cleanup" /\ last.ok /\ CountCalls(last, "dns/record/delete") = 1
    /\ \E j \in 1..Len(records) : records[j].type = "A"
    /\ \E j \in 1..Len(records) :
          /\ records[j].type = "TXT"
          /\ records[j].domain # last.base \/ records[j].name # last.acme

(* C22: one logical provider call makes at most 3 HTTP attempts in total,   *)
(* whatever retryable failures the provider returns, and fails once the     *)
(* budget is used up.                                                       *)
C22_AtMostThreeAttempts ==
    /\ transport.attempts <= 3
    /\ (/\ Len(transport.answers) >= 3
        /\ \A i \in 1..3 : Retryable(transport.answers[i])) =>
          transport.phase = "raised"

(* C23: an attempt answered with a status other than 429, 500, 502, 503,    *)
(* 504 is the last attempt of its call: the response goes to the caller     *)
(* without a retry, and a call so answered at once was attempted once.      *)
C23_OnlyListedStatusesRetried ==
    \A i \in 1..Len(transport.answers) :
        (/\ transport.answers[i] # ConnectionFailure
         /\ transport.answers[i] \notin RETRY_STATUS_FORCELIST) =>
            /\ i = Len(transport.answers)
            /\ transport.attempts = i
            /\ transport.phase = "returned"

\* a call answered with 403 at its first attempt and handed to the caller
C23_Witness ==
    /\ transport.phase = "returned"
    /\ transport.answers = <<403>>
    /\ transport.attempts = 1

(* C24: every POST under way ends, with a response or an error, even when   *)
(* the provider never answers.                                              *)
C24_EveryPostEnds ==
    (transport.phase = "waiting") ~> (transport.phase \in {"returned", "raised"})

C30_WritesStayInAcmeNamespace ==
    last.op = "perform" =>
        \A i \in 1..Len(last.calls) :
            last.calls[i].endpoint \in {"dns/record/add", "dns/record/edit"} =>
                /\ last.calls[i].type = "TXT"
                /\ last.calls[i].ttl = 60
                /\ \/ last.calls[i].name = ACME_CHALLENGE_PREFIX
                   \/ StartsWith(last.calls[i].name, ACME_CHALLENGE_PREFIX \o Dot)

(* C25: invocations for different validation names, resolving to different  *)
(* base domain and challenge host pairs, are independent under every        *)
(* interleaving of their steps: each returns as it would alone, leaves the  *)
(* records at its own host as it would alone, and has the cache entry it    *)
(* would have alone.                                                        *)
C25_ConcurrentInvocationsIndependent ==
    \A t \in ThreadIds :
        (/\ threads[t].pc = "done"
         /\ \A u \in ThreadIds \ {t} :
               /\ ThreadName(u) # ThreadName(t)
               /\ threads[u].alone.base # None =>
                     <<threads[u].alone.base, threads[u].alone.acme>>
                        # <<threads[t].alone.base, threads[t].alone.acme>>) =>
            /\ threads[t].ok = threads[t].alone.ok
            /\ Contents(records, threads[t].alone.base, threads[t].alone.acme)
                  = threads[t].alone.contents
            /\ Entry(_domain_map, ThreadName(t)) = threads[t].alone.entry

\* two _performs under the same base domain that ran interleaved, one     
\* editing the record it found, the other creating its own
C25_Witness ==
    /\ \A t \in ThreadIds :
          /\ threads[t].pc = "done" /\ threads[t].op = "perform"
          /\ threads[t].ok /\ threads[t].raced
          /\ threads[t].base = D_ec
    /\ threads[1].txt_records # <<>>
    /\ threads[2].txt_records = <<>>

(* C31: when the provider holds no TXT record at the challenge host, a      *)
(* _perform that returns without error followed by a _cleanup of the same   *)
(* validation name that returns without error leaves the provider's records *)
(* exactly as they were before the _perform.                                *)
C31_PerformThenCleanupRestores ==
    [][(/\ last.op = "perform" /\ last.ok
        /\ TxtAt(last.before, last.base, last.acme) = {}
        /\ last'.op = "cleanup" /\ last'.ok
        /\ last'.validation_name = last.validation_name)
          => records' = last.before]_vars

====
